---- MODULE Spec2Model ----
(***************************************************************************)
(* Model of src/src/utils.js of the whatsapp-api relay:                    *)
(*   - triggerWebhook      (the dispatcher, utils.js:15-28)                *)
(*   - waitForNestedObject (the readiness waiter, utils.js:36-55)          *)
(*   - checkIfEventisEnabled (the event gate, utils.js:57-59)              *)
(* JavaScript values are encoded as strings and records of a fixed shape,  *)
(* so that truthiness, optional chaining and property lookup are computed  *)
(* the way the interpreter computes them.                                  *)
(***************************************************************************)
EXTENDS Integers, Sequences, FiniteSets, TLC

VARIABLES
    enableWebHook,      \* utils.js:5   process.env.WEBHOOK_SOCKET_PORT at load
    disabledCallbacks,  \* utils.js:2   the disabled event kinds (config)
    sockets,            \* utils.js:12  clients connected to the socket.io server
    call,               \* arguments of the latest triggerWebhook call
    inbox,              \* what each client received during the latest call
    console,            \* console.error lines written by the latest call
    outcome,            \* how the latest call ended: "none" | "returned" | "raised"
    emitFailures,       \* how many io.emit calls have thrown so far
    now,                \* Date.now(), in units of one poll tick
    heap,               \* the session objects: object id -> key -> value
    registry,           \* the session registry: the current root object of the session
    wait,               \* the waitForNestedObject calls: arguments, closure, promise
    presentSince,       \* history: since when each pending wait's field has been present
    registrySaw,        \* history: the awaited field on the registry's root at the rejecting check
    gate                \* the promises checkIfEventisEnabled has returned

dvars == <<enableWebHook, disabledCallbacks, sockets, call, inbox, console, outcome,
           emitFailures>>

wvars == <<now, heap, registry, wait, presentSince, registrySaw>>
vars  == <<dvars, wvars, gate>>

\* Bound of the model: io.emit throws at most this many times in a behaviour.
MaxFailures == 2

(***************************************************************************)
(* Dispatcher: values                                                      *)
(***************************************************************************)
EventKinds == {"message", "presence"}
SessionIds == {"s1", "s2"}
SinkIds    == {"k1", "k2"}

\* process.env.WEBHOOK_SOCKET_PORT: unset, set to the empty string, or a port
EnvPortValues == {"undefined", "", "3001"}

\* A message object as whatsapp-web.js hands it over, or what stands in its place.
\*   type   : the JavaScript type of the value of data.message
\*   fromMe : message.fromMe
\*   id     : "undefined" (no id), "object" (an id without participant),
\*            "participant" (an id whose participant is set)
UndefinedMsg == [type |-> "undefined", fromMe |-> "undefined", id |-> "undefined", body |-> "undefined"]
NullMsg      == [type |-> "null", fromMe |-> "undefined", id |-> "undefined", body |-> "undefined"]
StringMsg    == [type |-> "string", fromMe |-> "undefined", id |-> "undefined", body |-> "undefined"]
ObjectMsgs   == [type : {"object"}, fromMe : {"undefined", "false", "true"},
                 id : {"undefined", "object", "participant"}, body : {"hi"}]
Messages     == {UndefinedMsg, NullMsg, StringMsg} \cup ObjectMsgs

\* The data argument: absent, or an object with (possibly) a message field and
\* (possibly) fromMe/body fields of its own.
UndefinedData == [type |-> "undefined", fromMe |-> "undefined", body |-> "undefined", message |-> UndefinedMsg]
\* objects without a message field, such as {fromMe: false, body: "hi"}
PlainData     == [type : {"object"}, fromMe : {"undefined", "false", "true"},
                  body : {"hi"}, message : {UndefinedMsg}]
\* objects with a message field, such as {message: msg}
MessageData   == [type : {"object"}, fromMe : {"undefined"},
                  body : {"undefined"}, message : Messages \ {UndefinedMsg}]
Payloads      == {UndefinedData} \cup PlainData \cup MessageData

NoCall == [webhookURL |-> "none", sessionId |-> "none", dataType |-> "none",
           data |-> UndefinedData, emitThrows |-> FALSE, sockets |-> {}]

(***************************************************************************)
(* Dispatcher: triggerWebhook, utils.js:15-28                              *)
(***************************************************************************)
\* JavaScript truthiness of an environment string (utils.js:17, !enableWebHook)
TruthyEnv(v) == v \notin {"undefined", ""}

\* data?.message (utils.js:18)
DataMessage(data) ==
    IF data.type \in {"undefined", "null"} THEN UndefinedMsg ELSE data.message

\* truthiness of the value of data?.message (utils.js:18)
TruthyMsg(m) == m.type \in {"string", "object"}

\* data?.message?.fromMe is truthy (utils.js:19)
MutNeverFromMe(data) == FALSE
MessageFromMe(data) ==
    LET m == DataMessage(data)
    IN  IF m.type \in {"undefined", "null"} THEN FALSE ELSE m.fromMe = "true"

\* data?.message?.id?.participant is truthy (utils.js:20)
MessageParticipant(data) ==
    LET m == DataMessage(data)
    IN  IF m.type \in {"undefined", "null"} THEN FALSE
        ELSE IF m.id = "undefined" THEN FALSE
        ELSE m.id = "participant"

\* The try block, utils.js:17-22: the values handed to io.emit('paip', .) and
\* the error thrown, if any. Only io.emit can throw here: optional chaining
\* never throws on the values above.
MutActiveAlways(v) == TRUE
TransportActive(v) == TruthyEnv(v)

TryBlock(enabled, data, emitThrows) ==
    IF ~TransportActive(enabled) THEN [emitted |-> <<>>, error |-> "none"]
    ELSE IF TruthyMsg(DataMessage(data))
         THEN IF MessageFromMe(data) THEN [emitted |-> <<>>, error |-> "none"]
              ELSE IF MessageParticipant(data) THEN [emitted |-> <<>>, error |-> "none"]
              ELSE IF emitThrows THEN [emitted |-> <<>>, error |-> "emit failed"]
              ELSE [emitted |-> <<data.message>>, error |-> "none"]
         ELSE [emitted |-> <<>>, error |-> "none"]

\* The whole function: try block and catch clause (utils.js:23-25).
MutNoCatch(enabled, sessionId, dataType, data, emitThrows) ==
    LET t == TryBlock(enabled, data, emitThrows)
    IN  [emitted |-> t.emitted, logged |-> <<>>, raised |-> t.error # "none"]
triggerWebhook(enabled, sessionId, dataType, data, emitThrows) ==
    LET t == TryBlock(enabled, data, emitThrows)
    IN  [emitted |-> t.emitted,
         logged  |-> IF t.error # "none"
                     THEN <<[sessionId |-> sessionId, dataType |-> dataType,
                             reason |-> t.error, data |-> data]>>
                     ELSE <<>>,
         raised  |-> FALSE]

(***************************************************************************)
(* Event gate: checkIfEventisEnabled, utils.js:57-59                       *)
(***************************************************************************)
\* The state of the promise the function returns: it is resolved for a kind
\* that is not disabled and is never settled for a disabled one. No line of
\* triggerWebhook calls it.
checkIfEventisEnabled(disabled, event) ==
    IF event \notin disabled THEN "resolved" ELSE "pending"

\* Bound of the model: the calls of checkIfEventisEnabled followed.
MaxGateCalls == 3

\* The kinds the gate is asked about: the configured ones and one that the
\* configuration does not know.
GateKinds == {"message", "presence", "call"}

(***************************************************************************)
(* Dispatcher: actions                                                     *)
(***************************************************************************)
DInit ==
    /\ enableWebHook \in EnvPortValues
    /\ disabledCallbacks \in SUBSET EventKinds
    /\ sockets = {}
    /\ call = NoCall
    /\ inbox = [s \in SinkIds |-> <<>>]
    /\ console = <<>>
    /\ outcome = "none"
    /\ emitFailures = 0
    /\ gate = <<>>

\* A client connects to the socket.io server (utils.js:11-12).
SocketConnect(s) ==
    /\ s \notin sockets
    /\ sockets' = sockets \cup {s}
    /\ UNCHANGED <<enableWebHook, disabledCallbacks, call, inbox, console, outcome,
                   emitFailures, wvars, gate>>

\* A client disconnects.
SocketDisconnect(s) ==
    /\ s \in sockets
    /\ sockets' = sockets \ {s}
    /\ UNCHANGED <<enableWebHook, disabledCallbacks, call, inbox, console, outcome,
                   emitFailures, wvars, gate>>

\* One call of triggerWebhook by an event handler. io.emit broadcasts each
\* emitted value once to every connected client.
Dispatch(sessionId, dataType, data, emitThrows) ==
    LET r == triggerWebhook(enableWebHook, sessionId, dataType, data, emitThrows)
    IN  /\ emitThrows => emitFailures < MaxFailures
        /\ emitFailures' = IF r.logged # <<>> \/ r.raised THEN emitFailures + 1
                           ELSE emitFailures
        /\ call' = [webhookURL |-> "url", sessionId |-> sessionId, dataType |-> dataType,
                    data |-> data, emitThrows |-> emitThrows, sockets |-> sockets]
        /\ inbox' = [s \in SinkIds |-> IF s \in sockets THEN r.emitted ELSE <<>>]
        /\ console' = r.logged
        /\ outcome' = IF r.raised THEN "raised" ELSE "returned"
        /\ UNCHANGED <<enableWebHook, disabledCallbacks, sockets, wvars, gate>>

\* One call of checkIfEventisEnabled(event): the promise it returns, in the
\* state the executor leaves it in. Nothing keeps resolve or reject, so that
\* state is final.
GateCheck(event) ==
    /\ Len(gate) < MaxGateCalls
    /\ gate' = Append(gate, [event |-> event,
                             promise |-> checkIfEventisEnabled(disabledCallbacks, event)])
    /\ UNCHANGED <<dvars, wvars>>

(***************************************************************************)
(* Waiter: values                                                          *)
(***************************************************************************)
\* Bound of the model: the clock stops here.
MaxTime == 4

\* The (maxWaitTime, interval) pairs the callers pass, in ticks: a deadline
\* that is a multiple of the interval, and a deadline shorter than the interval.
WaitArgs == { [maxWaitTime |-> 2, interval |-> 1],
              [maxWaitTime |-> 1, interval |-> 2] }

\* The calls of waitForNestedObject followed: SpecWait follows one call (w2 is
\* unused there), SpecConc follows two concurrent calls.
Waiters == {"w1", "w2"}

\* Objects: two root objects (the session object, and the one the registry
\* puts in its place), the object held by root.a and the object held by a.b.
Roots  == {"r1", "r2"}
ObjIds == Roots \cup {"oa", "ob"}

\* Property names are sequences of characters, so that split('.') is computed.
Keys == {<<"a">>, <<"b">>, <<"c">>}

\* The paths awaited: "a", "a.b" and "a.b.c".
Paths == { <<"a">>, <<"a", ".", "b">>, <<"a", ".", "b", ".", "c">> }

\* JavaScript values: undefined, null, the number 0, the number 1, an object.
\* "TypeError" stands for the exception a property read of undefined or null
\* throws; it is the result of an evaluation, never the value of a field.
Primitives == {"undefined", "null", "0", "1"}
Values     == Primitives \cup ObjIds

\* What the owner of the session state writes into each field.
Writable(o, k) ==
    IF o = "r1" /\ k = <<"a">> THEN {"undefined", "0", "1", "oa"}
    ELSE IF o = "r2" /\ k = <<"a">> THEN {"undefined", "oa"}
    ELSE IF o = "oa" /\ k = <<"b">> THEN {"undefined", "ob"}
    ELSE IF o = "ob" /\ k = <<"c">> THEN {"undefined", "1"}
    ELSE {}

NoTimer == -1

\* The value a promise is rejected with: an Error object, by its name and
\* message (it has no other property of its own), or none.
NoError == [name |-> "none", message |-> "none"]

\* status: "idle" (not called), "pending", "resolved", "rejected", or "threw"
\* (checkObject ended by an exception).
IdleWait == [status |-> "idle", rootObj |-> "undefined", nestedPath |-> <<"a">>,
             maxWaitTime |-> 1, interval |-> 1, start |-> 0, timer |-> NoTimer,
             nestedObj |-> "undefined", elapsed |-> 0, error |-> NoError]
UnusedWait == [IdleWait EXCEPT !.status = "unused"]

(***************************************************************************)
(* Waiter: waitForNestedObject, utils.js:36-55                             *)
(***************************************************************************)
\* JavaScript truthiness (utils.js:40 `obj ? ...`, utils.js:41 `if (nestedObj)`)
Truthy(v) == v \notin {"undefined", "null", "0"}

\* obj[key]: the field of an object, undefined on a primitive or a missing
\* key, a TypeError on undefined and null
GetProp(h, obj, key) ==
    IF obj \in {"undefined", "null"} THEN "TypeError"
    ELSE IF obj \in ObjIds /\ key \in Keys THEN h[obj][key]
    ELSE "undefined"

\* the reducer (obj, key) => obj ? obj[key] : undefined (utils.js:40)
MutUnguardedRead(h, obj, key) == GetProp(h, obj, key)
Reducer(h, obj, key) ==
    IF Truthy(obj) THEN GetProp(h, obj, key) ELSE "undefined"

\* nestedPath.split('.') (utils.js:40)
RECURSIVE Split(_)
Split(s) ==
    IF \A i \in 1..Len(s) : s[i] # "."
    THEN <<s>>
    ELSE LET i == CHOOSE j \in 1..Len(s) :
                    s[j] = "." /\ \A m \in 1..(j - 1) : s[m] # "."
         IN  <<SubSeq(s, 1, i - 1)>> \o Split(SubSeq(s, i + 1, Len(s)))

\* keys.reduce(reducer, acc) (utils.js:40); an exception of the reducer ends it
RECURSIVE Reduce(_, _, _)
Reduce(h, keys, acc) ==
    IF keys = <<>> \/ acc = "TypeError" THEN acc
    ELSE Reduce(h, Tail(keys), Reducer(h, acc, Head(keys)))

\* the value of nestedObj at a check (utils.js:40): the walk starts from the
\* rootObj the call was given
MutWalkFromRegistry(h, rootObj, nestedPath) ==
    Reduce(h, Split(nestedPath), IF rootObj \in Roots THEN registry ELSE rootObj)
NestedObj(h, rootObj, nestedPath) == Reduce(h, Split(nestedPath), rootObj)

\* Date.now() - start > maxWaitTime (utils.js:44)
MutDeadlineReversed(elapsed, maxWaitTime) == elapsed < maxWaitTime
DeadlinePassed(elapsed, maxWaitTime) == elapsed > maxWaitTime

\* new Error('Timeout waiting for nested object') (utils.js:47)
MutRejectWithoutError == NoError
TimeoutError == [name |-> "Error", message |-> "Timeout waiting for nested object"]

\* checkObject, utils.js:39-52: one check of the closure w at time t. The
\* timer that ran it is gone; the check resolves, rejects or sets a new timer.
MutDeadlineFirst(h, t, w) ==
    LET v == NestedObj(h, w.rootObj, w.nestedPath)
        e == t - w.start
        seen == [w EXCEPT !.nestedObj = v, !.elapsed = e, !.timer = NoTimer]
    IN  IF v = "TypeError" THEN [seen EXCEPT !.status = "threw"]
        ELSE IF DeadlinePassed(e, w.maxWaitTime)
             THEN [seen EXCEPT !.status = "rejected", !.error = TimeoutError]
        ELSE IF Truthy(v) THEN [seen EXCEPT !.status = "resolved"]
        ELSE [seen EXCEPT !.timer = t + w.interval]
checkObject(h, t, w) ==
    LET v == NestedObj(h, w.rootObj, w.nestedPath)
        e == t - w.start
        seen == [w EXCEPT !.nestedObj = v, !.elapsed = e, !.timer = NoTimer]
    IN  IF v = "TypeError" THEN [seen EXCEPT !.status = "threw"]
        ELSE IF Truthy(v) THEN [seen EXCEPT !.status = "resolved"]
        ELSE IF DeadlinePassed(e, w.maxWaitTime)
             THEN [seen EXCEPT !.status = "rejected", !.error = TimeoutError]
        ELSE [seen EXCEPT !.timer = t + w.interval]

(***************************************************************************)
(* Waiter: actions                                                         *)
(***************************************************************************)
\* A field is present when its value is neither undefined nor null.
Present(v) == v \notin {"undefined", "null"}

\* History kept for the timing properties: for each pending wait, the time
\* since which the awaited field has been present without interruption
\* (NoTimer when it is absent or the wait is not pending).
Observe(h, ws, t, prev) ==
    [w \in Waiters |->
        IF ws[w].status # "pending" THEN NoTimer
        ELSE IF ~Present(NestedObj(h, ws[w].rootObj, ws[w].nestedPath)) THEN NoTimer
        ELSE IF prev[w] # NoTimer THEN prev[w]
        ELSE t]

\* History kept for the root-replacement properties: at a check that rejects
\* the wait and whose root object is no longer the one the registry holds, the
\* value the awaited path has on the registry's root.
OnRegistry(h, w) ==
    IF w.status = "rejected" /\ w.rootObj \in Roots /\ w.rootObj # registry
    THEN NestedObj(h, registry, w.nestedPath)
    ELSE "undefined"

WInit ==
    /\ now = 0
    /\ heap = [o \in ObjIds |-> [k \in Keys |-> "undefined"]]
    /\ registry = "r1"
    /\ wait = [w \in Waiters |-> IdleWait]
    /\ presentSince = [w \in Waiters |-> NoTimer]
    /\ registrySaw = [w \in Waiters |-> "undefined"]

\* The owner of the session state (the client library) writes a field.
SetField(o, k, v) ==
    /\ v \in Writable(o, k)
    /\ heap[o][k] # v
    /\ heap' = [heap EXCEPT ![o][k] = v]
    /\ presentSince' = Observe(heap', wait, now, presentSince)
    /\ UNCHANGED <<now, registry, wait, registrySaw, dvars, gate>>

\* The registry replaces the root object of the session by another object.
ReplaceRoot(r) ==
    /\ r \in Roots
    /\ r # registry
    /\ registry' = r
    /\ UNCHANGED <<now, heap, wait, presentSince, registrySaw, dvars, gate>>

\* waitForNestedObject(rootObj, nestedPath, maxWaitTime, interval): the call
\* takes start, creates the promise and runs the first check (utils.js:37-53).
\* The caller passes the registry's current root, or undefined.
Call(w, rootObj, nestedPath, maxWaitTime, interval) ==
    /\ wait[w].status = "idle"
    /\ rootObj \in {registry, "undefined"}
    /\ now + maxWaitTime + interval <= MaxTime
    /\ wait' = [wait EXCEPT ![w] =
                  checkObject(heap, now,
                     [IdleWait EXCEPT !.status = "pending", !.rootObj = rootObj,
                                      !.nestedPath = nestedPath,
                                      !.maxWaitTime = maxWaitTime,
                                      !.interval = interval, !.start = now])]
    /\ presentSince' = Observe(heap, wait', now, presentSince)
    /\ registrySaw' = [registrySaw EXCEPT ![w] = OnRegistry(heap, wait'[w])]
    /\ UNCHANGED <<now, heap, registry, dvars, gate>>

\* The timer set by setTimeout(checkObject, interval) fires (utils.js:50).
Poll(w) ==
    /\ wait[w].status = "pending"
    /\ wait[w].timer # NoTimer
    /\ wait[w].timer <= now
    /\ wait' = [wait EXCEPT ![w] = checkObject(heap, now, wait[w])]
    /\ presentSince' = Observe(heap, wait', now, presentSince)
    /\ registrySaw' = [registrySaw EXCEPT ![w] = OnRegistry(heap, wait'[w])]
    /\ UNCHANGED <<now, heap, registry, dvars, gate>>

\* Time passes. A timer that is due runs before the clock moves on. The clock
\* is read by the waits alone, so it is followed while one is pending or may
\* still be called.
Tick ==
    /\ now < MaxTime
    /\ \E w \in Waiters : wait[w].status \in {"idle", "pending"}
    /\ \A w \in Waiters : wait[w].timer = NoTimer \/ wait[w].timer > now
    /\ now' = now + 1
    /\ UNCHANGED <<heap, registry, wait, presentSince, registrySaw, dvars, gate>>

(***************************************************************************)
(* Specifications                                                          *)
(***************************************************************************)
DNext ==
    \/ \E s \in SinkIds : SocketConnect(s)
    \/ \E s \in SinkIds : SocketDisconnect(s)
    \/ \E sid \in SessionIds, k \in EventKinds, d \in Payloads, f \in BOOLEAN :
          Dispatch(sid, k, d, f)

WNext ==
    \/ \E o \in ObjIds, k \in Keys, v \in Values : SetField(o, k, v)
    \/ \E r \in Roots : ReplaceRoot(r)
    \/ \E w \in Waiters, r \in Roots \cup {"undefined"}, p \in Paths, a \in WaitArgs :
          Call(w, r, p, a.maxWaitTime, a.interval)
    \/ \E w \in Waiters : Poll(w)
    \/ Tick

\* Two concurrent calls of waitForNestedObject on the same root and path.
InitConc ==
    /\ DInit
    /\ enableWebHook = "undefined"
    /\ disabledCallbacks = {}
    /\ WInit
ConcNext ==
    \/ \E v \in Values : SetField("r1", <<"a">>, v)
    \/ \E w \in Waiters, a \in WaitArgs :
          Call(w, "r1", <<"a">>, a.maxWaitTime, a.interval)
    \/ \E w \in Waiters : Poll(w)
    \/ Tick
SpecConc == InitConc /\ [][ConcNext]_vars

\* The event gate, with the dispatcher and the waiter at rest.
InitGate ==
    /\ DInit
    /\ enableWebHook = "undefined"
    /\ WInit
GateNext == \E e \in GateKinds : GateCheck(e)
SpecGate == InitGate /\ [][GateNext]_vars

\* The dispatcher, with the waiter at rest.
InitDispatch == DInit /\ WInit
SpecDispatch == InitDispatch /\ [][DNext]_vars

\* The waiter, with the dispatcher at rest: one call of waitForNestedObject.
InitWait ==
    /\ DInit
    /\ enableWebHook = "undefined"
    /\ disabledCallbacks = {}
    /\ now = 0
    /\ heap = [o \in ObjIds |-> [k \in Keys |-> "undefined"]]
    /\ registry = "r1"
    /\ wait = [w \in Waiters |-> IF w = "w1" THEN IdleWait ELSE UnusedWait]
    /\ presentSince = [w \in Waiters |-> NoTimer]
    /\ registrySaw = [w \in Waiters |-> "undefined"]
SpecWait == InitWait /\ [][WNext]_vars

\* The waiter under Node's event loop: the clock advances and a timer that is
\* due is run.
SpecWaitFair ==
    /\ SpecWait
    /\ WF_vars(Tick)
    /\ \A w \in Waiters : WF_vars(Poll(w))

(***************************************************************************)
(* Dispatcher: properties                                                  *)
(***************************************************************************)
Called == outcome # "none"

\* the transport is active, read off the environment value itself
PortSet == enableWebHook = "3001"

\* the payload of the latest call carries a message object
CarriesMessage == call.data.type = "object" /\ call.data.message.type = "object"

\* the payload of the latest call is marked as self-originated, on the payload
\* or on the message it carries
MarkedSelf ==
    \/ call.data.fromMe = "true"
    \/ call.data.message.fromMe = "true"
    \/ call.data.message.id = "participant"

NothingDelivered == \A s \in SinkIds : inbox[s] = <<>>

\* C1: a call made while the transport is active, with an event kind that is
\* not disabled and an object payload that is not self-originated, delivers
\* exactly once to every sink connected at the call, whatever the payload's
\* shape (emission failures set aside).
C1_DeliveredOnceToEverySink ==
    ( /\ Called
      /\ PortSet
      /\ call.dataType \notin disabledCallbacks
      /\ call.data.type = "object"
      /\ ~MarkedSelf
      /\ ~call.emitThrows )
    => \A s \in call.sockets : Len(inbox[s]) = 1

\* C2: a call whose event kind is in the disabled set delivers to no sink.
C2_DisabledKindNotDelivered ==
    (Called /\ call.dataType \in disabledCallbacks) => NothingDelivered

\* C3: a call whose payload is a chat message with fromMe true, or one that
\* carries a participant marker, delivers nothing, logs nothing and returns.
C3_SelfOriginSuppressed ==
    (Called /\ MarkedSelf)
    => (NothingDelivered /\ console = <<>> /\ outcome = "returned")

C3_Witness ==
    /\ Called /\ PortSet /\ CarriesMessage
    /\ call.data.message.fromMe = "true"
    /\ call.dataType \notin disabledCallbacks
    /\ call.sockets = SinkIds
    /\ ~call.emitThrows

\* C4: whatever a sink receives from a call is the payload argument of that
\* call, and the payload {fromMe: false, body: "hi"} of kind "message" reaches
\* a connected sink exactly once when nothing is disabled.
ScenarioB ==
    /\ Called /\ PortSet /\ disabledCallbacks = {}
    /\ call.sessionId = "s1" /\ call.dataType = "message"
    /\ call.data = [type |-> "object", fromMe |-> "false", body |-> "hi",
                    message |-> UndefinedMsg]
    /\ ~call.emitThrows
C4_SinkReceivesPayload ==
    /\ Called => \A s \in SinkIds : \A i \in 1..Len(inbox[s]) : inbox[s][i] = call.data
    /\ ScenarioB => \A s \in call.sockets : inbox[s] = <<call.data>>

\* C5: with WEBHOOK_SOCKET_PORT unset (or empty) a call emits nothing, logs
\* nothing and returns, for every event kind and payload.
C5_InactiveTransportNoOp ==
    (Called /\ enableWebHook \in {"undefined", ""})
    => (NothingDelivered /\ console = <<>> /\ outcome = "returned")

C5_Witness ==
    /\ Called /\ enableWebHook = "undefined" /\ CarriesMessage /\ ~MarkedSelf
    /\ call.sockets = SinkIds
    /\ call.emitThrows

\* C6: a call never raises; when io.emit throws, one line with the session id,
\* the event kind and the reason is logged, nothing is emitted again, and a
\* later call that io.emit accepts is delivered as if nothing had failed.
EmitReached == PortSet /\ call.data.type = "object" /\ call.data.message.type \in {"string", "object"}
                 /\ ~MarkedSelf
C6_NeverRaises ==
    Called =>
      /\ outcome = "returned"
      /\ \A s \in SinkIds : Len(inbox[s]) <= 1
      /\ (EmitReached /\ call.emitThrows) =>
            /\ NothingDelivered
            /\ Len(console) = 1
            /\ console[1].sessionId = call.sessionId
            /\ console[1].dataType = call.dataType
            /\ console[1].reason = "emit failed"
      /\ (EmitReached /\ ~call.emitThrows) =>
            /\ console = <<>>
            /\ \A s \in call.sockets : Len(inbox[s]) = 1

C6_Witness ==
    /\ Called /\ emitFailures = MaxFailures
    /\ EmitReached /\ ~call.emitThrows
    /\ call.sockets = SinkIds
    /\ \A s \in SinkIds : Len(inbox[s]) = 1

(***************************************************************************)
(* Waiter: properties                                                      *)
(***************************************************************************)
Pending(w)  == wait[w].status = "pending"
Resolved(w) == wait[w].status = "resolved"
Rejected(w) == wait[w].status = "rejected"

\* the values a check of line 41 does not accept
Falsy == {"undefined", "null", "0"}

\* C7: a check that finds the awaited field non-absent resolves the wait,
\* whatever the value of the field (0 included).
C7_ResolvesOnAnyPresentValue ==
    \A w \in Waiters :
        (wait[w].status # "idle" /\ wait[w].nestedObj \notin {"undefined", "null"})
        => Resolved(w)

\* C8: a wait whose field became present at time t, and has stayed present,
\* is pending no later than t + interval, and at t + interval only as long as
\* the poll due at that instant has not run yet.
C8_ResolvesWithinOneInterval ==
    \A w \in Waiters :
        (Pending(w) /\ presentSince[w] # NoTimer)
        => \/ now < presentSince[w] + wait[w].interval
           \/ now = presentSince[w] + wait[w].interval /\ wait[w].timer = now

\* C9: a wait whose field never becomes present is eventually rejected, and no
\* wait is rejected by a check whose elapsed time is below maxWaitTime.
C9_TimeoutEventuallyAndNotEarly ==
    /\ [](\A w \in Waiters : Rejected(w) => wait[w].elapsed >= wait[w].maxWaitTime)
    /\ \A w \in Waiters :
          Pending(w) ~> ( \/ Rejected(w)
                          \/ Present(NestedObj(heap, wait[w].rootObj, wait[w].nestedPath)) )

C9_Witness ==
    \E w \in Waiters :
        /\ Rejected(w)
        /\ wait[w].nestedObj = "undefined"
        /\ wait[w].rootObj = "r1"
        /\ wait[w].start > 0
        /\ wait[w].elapsed > wait[w].maxWaitTime

\* C10 as stated: no wait is pending after a check whose elapsed time exceeds
\* maxWaitTime, and no wait resolves at such a check.
C10_NoResolveAfterDeadline ==
    \A w \in Waiters :
        /\ Pending(w) => wait[w].elapsed <= wait[w].maxWaitTime
        /\ Resolved(w) => wait[w].elapsed <= wait[w].maxWaitTime

\* C10 amended: a check whose elapsed time exceeds maxWaitTime settles the
\* wait; it rejects only when the field was not accepted at that check, and
\* resolves (also past maxWaitTime) when the field was accepted at it.
C10_DeadlineSettlesUnlessFieldAccepted ==
    \A w \in Waiters :
        /\ Pending(w) => wait[w].elapsed <= wait[w].maxWaitTime
        /\ Rejected(w) => ( /\ wait[w].elapsed > wait[w].maxWaitTime
                            /\ wait[w].nestedObj \in Falsy )
        /\ Resolved(w) => wait[w].nestedObj \notin Falsy

C10_Witness ==
    \E w \in Waiters :
        /\ Resolved(w)
        /\ wait[w].elapsed > wait[w].maxWaitTime
        /\ wait[w].nestedPath = <<"a", ".", "b", ".", "c">>

\* The awaited field written out per path, without split and reduce: root.a,
\* root.a.b or root.a.b.c, undefined as soon as a step is not an object.
FieldAt(h, root, path) ==
    LET a == IF root \in ObjIds THEN h[root][<<"a">>] ELSE "undefined"
        b == IF a \in ObjIds THEN h[a][<<"b">>] ELSE "undefined"
        c == IF b \in ObjIds THEN h[b][<<"c">>] ELSE "undefined"
    IN  IF path = <<"a">> THEN a
        ELSE IF path = <<"a", ".", "b">> THEN b
        ELSE c

\* a step in which checkObject ran for w (at the call or from a timer)
Checked(w) == wait'[w] # wait[w]

C12_ObservesReplacedRoot ==
    \A w \in Waiters : Rejected(w) => registrySaw[w] \in Falsy

\* C12 amended: every check reads the root object the call was given, whatever
\* the registry holds by then; it resolves exactly when the field is accepted
\* on that object.
C12_PollsRootGivenAtCall ==
    [][ \A w \in Waiters :
          (Checked(w) /\ wait'[w].rootObj \in Roots)
          => ( wait'[w].status = "resolved"
               <=> FieldAt(heap, wait'[w].rootObj, wait'[w].nestedPath) \notin Falsy ) ]_vars

C12_Witness ==
    \E w \in Waiters :
        /\ Rejected(w)
        /\ wait[w].rootObj = "r1"
        /\ registry = "r2"
        /\ registrySaw[w] \notin Falsy

\* C13: a check never ends by an exception; an absent root or intermediate key
\* reads as undefined and the wait keeps a timer; a wait is rejected only past
\* the deadline; and each check sees the objects as they are at that check.
C13_AbsentIntermediateIsNotAnError ==
    /\ [](\A w \in Waiters :
            /\ wait[w].status # "threw"
            /\ Rejected(w) => wait[w].elapsed > wait[w].maxWaitTime
            /\ Pending(w) => wait[w].timer # NoTimer)
    /\ [][ \A w \in Waiters :
             Checked(w) => wait'[w].nestedObj =
                             FieldAt(heap, wait'[w].rootObj, wait'[w].nestedPath) ]_vars

C13_Witness ==
    \E w \in Waiters :
        /\ Resolved(w)
        /\ wait[w].nestedPath = <<"a", ".", "b", ".", "c">>
        /\ wait[w].elapsed > wait[w].interval

\* C14: every promise of checkIfEventisEnabled is settled when the call
\* returns: resolved for a kind that is not disabled, rejected for a disabled
\* one.
C14_GateAlwaysAnswers ==
    \A i \in 1..Len(gate) :
        /\ gate[i].promise # "pending"
        /\ gate[i].promise = "resolved" <=> gate[i].event \notin disabledCallbacks

\* C15: with the awaited field present, a poll of a pending wait resolves it,
\* and a check of one wait changes no other wait.
C15_ConcurrentWaitsResolveIndependently ==
    [][ \A w \in Waiters :
          /\ ( /\ Pending(w) /\ Checked(w)
               /\ Present(FieldAt(heap, wait[w].rootObj, wait[w].nestedPath)) )
             => wait'[w].status = "resolved"
          /\ (Checked(w) /\ wait[w].status \in {"idle", "pending"})
             => \A v \in Waiters \ {w} : wait'[v] = wait[v] ]_vars

\* C16: a settled wait has no timer, a pending wait has one, no wait is both
\* resolved and rejected, and a call that finds its field present at the first
\* check resolves there without a timer.
C16_SettlesOnceNoTimerLeft ==
    \A w \in Waiters :
        /\ wait[w].status \in {"resolved", "rejected"} => wait[w].timer = NoTimer
        /\ Pending(w) => wait[w].timer # NoTimer
        /\ Resolved(w) => wait[w].error = NoError
        /\ ( /\ wait[w].status \in {"pending", "resolved", "rejected"}
             /\ wait[w].elapsed = 0
             /\ Present(wait[w].nestedObj) )
           => (Resolved(w) /\ wait[w].timer = NoTimer)

====
